---- MODULE Spec2Model ----
(***************************************************************************)
(* Surface and region cards of pyne.simplesim.cards: the axis-aligned      *)
(* surfaces (AxisCylinder, AxisPlane, Parallelepiped), their shift and     *)
(* stretch transforms, and the boolean region tree built from them.        *)
(*                                                                         *)
(* Python vectors are indexed 0..2; the tuples here are indexed 1..3, so   *)
(* vector[0], vector[1], vector[2] of the source are vector[1], vector[2], *)
(* vector[3] below.  Numbers are integers.  An exception is recorded by    *)
(* the name of the Python class the source raises.                         *)
(***************************************************************************)
EXTENDS Integers, Sequences, FiniteSets, TLC

VARIABLES
    surfaces,   \* handle -> surface object (NoSurface when not constructed)
    regions,    \* sequence of region nodes, a node's identity is its index
    last,       \* the most recent call: operation, arguments, outcome
    nops,       \* number of shift/stretch calls made so far
    cards       \* handle -> source or cell card (NoCard when not constructed)

vars == <<surfaces, regions, last, nops, cards>>

\* Bound on the number of shift/stretch calls in one behaviour.
MaxOps == 2

\* Bound on the number of region nodes created in one behaviour.
MaxRegions == 3

-----------------------------------------------------------------------------
(* Values *)

Handles == {"s1", "s2", "s3"}

\* A slot that holds no object; also the shape every surface record has.
NoSurface ==
    [kind |-> "none", name |-> "", reflecting |-> "None", white |-> "None",
     cartesian_axis |-> "", radius |-> 0, position |-> 0,
     xlims |-> <<0, 0>>, ylims |-> <<0, 0>>, zlims |-> <<0, 0>>]

ZeroVector == <<0, 0, 0>>

CardHandles == {"critsrc", "critpts", "cell"}

\* A slot that holds no card; also the shape every card record has.  region
\* is a region node (0 for none), material the name of the material.
NoCard ==
    [kind |-> "none", name |-> "", unique |-> FALSE, region |-> 0,
     material |-> "", density |-> 0, density_units |-> ""]

\* The outcome of a call on an object: the object afterwards and the
\* exception raised ("none" when the call returns normally).
Result(s, err) == [s |-> s, err |-> err]

\* Python truth value of None / False / True.
Truthy(value) == value = "True"

\* str.lower() on the axis names used.
Lower(value) ==
    CASE value = "X" -> "x"
      [] value = "Y" -> "y"
      [] value = "Z" -> "z"
      [] OTHER -> value

-----------------------------------------------------------------------------
(* ICard *)

\* Variant: the empty value is tested before the unique flag.
ICard_name_set_emptyfirst(s, unique, value) ==
    IF value = "" THEN Result(s, "ValueError")
    ELSE IF unique THEN Result(s, "StandardError")
    ELSE Result([s EXCEPT !.name = value], "none")

ICard_name_set(s, unique, value) ==
    IF unique THEN Result(s, "StandardError")
    ELSE IF value = "" THEN Result(s, "ValueError")
    ELSE Result([s EXCEPT !.name = value], "none")

\* Variant: the name is stored directly whatever the unique flag.
ICard_init_unchecked(s, name, unique) ==
    Result([s EXCEPT !.name = name], "none")

ICard_init(s, name, unique) ==
    IF unique THEN Result([s EXCEPT !.name = name], "none")
    ELSE ICard_name_set(s, FALSE, name)

-----------------------------------------------------------------------------
(* CellVoid, Cell, CellVoidMCNP, CellMCNP, Criticality, CriticalityPoints *)

\* ICard.__init__ on a fresh card object of class kind: _unique is stored,
\* then the name.
Card_init(kind, name, unique) ==
    ICard_init([NoCard EXCEPT !.kind = kind, !.unique = unique], name, unique)

CellVoid_region_set(s, obj) == Result([s EXCEPT !.region = obj], "none")

CellVoid_init(kind, name, region) ==
    LET r1 == Card_init(kind, name, FALSE)
    IN  IF r1.err # "none" THEN r1
        ELSE CellVoid_region_set(r1.s, region)

\* A material is given by its name.
Cell_material_set(s, obj) ==
    IF obj = "" THEN Result(s, "ValueError")
    ELSE Result([s EXCEPT !.material = obj], "none")

Cell_density_set(s, value) == Result([s EXCEPT !.density = value], "none")

\* The setter's parameter is value, but its test reads density_units, a
\* name bound nowhere in the setter or the module: every call raises
\* NameError before anything is compared or stored.
Cell_density_units_set(s, value) == Result(s, "NameError")

Cell_init(name, region, material, density, density_units) ==
    LET r1 == CellVoid_init("Cell", name, region)
        r2 == Cell_material_set(r1.s, material)
        r3 == Cell_density_set(r2.s, density)
    IN  IF r1.err # "none" THEN r1
        ELSE IF r2.err # "none" THEN r2
        ELSE IF r3.err # "none" THEN r3
        ELSE Cell_density_units_set(r3.s, density_units)

\* The keyword arguments (temperature, volume, importances) are left at
\* their default None, which every one of their setters stores.
CellVoidMCNP_init(kind, name, region) == CellVoid_init(kind, name, region)

\* CellMCNP extends CellVoidMCNP alone (Cell is commented out of its
\* bases), so material, density and density_units are plain attributes:
\* the three assignments store whatever is given.
CellMCNP_init(name, region, material, density, density_units) ==
    LET r1 == CellVoidMCNP_init("CellMCNP", name, region)
    IN  IF r1.err # "none" THEN r1
        ELSE Result([r1.s EXCEPT !.material = material,
                                 !.density = density,
                                 !.density_units = density_units], "none")

\* Criticality() / CriticalityPoints() with their default arguments, which
\* the other setters accept.
Criticality_init == Card_init("Criticality", "criticality", TRUE)

CriticalityPoints_init ==
    Card_init("CriticalityPoints", "criticalitypoints", TRUE)

-----------------------------------------------------------------------------
(* ISurface, IAxisSurface *)

ISurface_reflecting_set(s, value) ==
    IF value \notin {"None", "False", "True"} THEN Result(s, "TypeError")
    ELSE Result([s EXCEPT !.reflecting = value], "none")

ISurface_white_set(s, value) ==
    IF value \notin {"None", "False", "True"} THEN Result(s, "TypeError")
    ELSE Result([s EXCEPT !.white = value], "none")

\* Variant: the two flags are not tested against each other.
ISurface_init_bothallowed(s, name, reflecting, white) ==
    LET r1 == ICard_init(s, name, FALSE)
        r2 == ISurface_reflecting_set(r1.s, reflecting)
        r3 == ISurface_white_set(r2.s, white)
    IN  IF r1.err # "none" THEN r1
        ELSE IF r2.err # "none" THEN r2
        ELSE r3

ISurface_init(s, name, reflecting, white) ==
    LET r1 == ICard_init(s, name, FALSE)
        r2 == ISurface_reflecting_set(r1.s, reflecting)
        r3 == ISurface_white_set(r2.s, white)
    IN  IF r1.err # "none" THEN r1
        ELSE IF r2.err # "none" THEN r2
        ELSE IF r3.err # "none" THEN r3
        ELSE IF Truthy(r3.s.reflecting) /\ Truthy(r3.s.white)
             THEN Result(r3.s, "ValueError")
        ELSE r3

IAxisSurface_cartesian_axis_set(s, value) ==
    IF Lower(value) # "x" /\ Lower(value) # "y" /\ Lower(value) # "z"
    THEN Result(s, "ValueError")
    ELSE Result([s EXCEPT !.cartesian_axis = Lower(value)], "none")

IAxisSurface_init(s, name, cartesian_axis, reflecting, white) ==
    LET r1 == ISurface_init(s, name, reflecting, white)
    IN  IF r1.err # "none" THEN r1
        ELSE IAxisSurface_cartesian_axis_set(r1.s, cartesian_axis)

-----------------------------------------------------------------------------
(* AxisCylinder *)

\* Variant: zero is let through (the test is < where the source has <=).
AxisCylinder_radius_set_nonneg(s, value) ==
    IF value < 0 THEN Result(s, "ValueError")
    ELSE Result([s EXCEPT !.radius = value], "none")

\* Variant: the value is stored before it is tested.
AxisCylinder_radius_set_late(s, value) ==
    IF value <= 0 THEN Result([s EXCEPT !.radius = value], "ValueError")
    ELSE Result([s EXCEPT !.radius = value], "none")

AxisCylinder_radius_set(s, value) ==
    IF value <= 0 THEN Result(s, "ValueError")
    ELSE Result([s EXCEPT !.radius = value], "none")

AxisCylinder_init(name, cartesian_axis, radius, reflecting, white) ==
    LET r1 == IAxisSurface_init([NoSurface EXCEPT !.kind = "AxisCylinder"],
                                name, cartesian_axis, reflecting, white)
    IN  IF r1.err # "none" THEN r1
        ELSE AxisCylinder_radius_set(r1.s, radius)

\* Variant: both off-axis components must be non-zero for the error.
AxisCylinder_shift_and(s, vector) ==
    LET iserror ==
            \/ s.cartesian_axis = "x" /\ (vector[2] # 0 /\ vector[3] # 0)
            \/ s.cartesian_axis = "y" /\ (vector[1] # 0 /\ vector[3] # 0)
            \/ s.cartesian_axis = "z" /\ (vector[1] # 0 /\ vector[2] # 0)
    IN  IF iserror THEN Result(s, "ValueError") ELSE Result(s, "none")

AxisCylinder_shift(s, vector) ==
    LET iserror ==
            \/ s.cartesian_axis = "x" /\ (vector[2] # 0 \/ vector[3] # 0)
            \/ s.cartesian_axis = "y" /\ (vector[1] # 0 \/ vector[3] # 0)
            \/ s.cartesian_axis = "z" /\ (vector[1] # 0 \/ vector[2] # 0)
    IN  IF iserror THEN Result(s, "ValueError") ELSE Result(s, "none")

\* Variant: the radius is scaled by the magnitude of the factor.
AxisCylinder_stretch_axis_abs(s, axis, a, b) ==
    IF s.cartesian_axis # axis THEN Result(s, "none")
    ELSE IF a # b THEN Result(s, "iserror")
    ELSE IF a # 0
         THEN AxisCylinder_radius_set(s, s.radius * (IF a < 0 THEN -a ELSE a))
    ELSE Result(s, "none")

\* Variant: a zero factor is not set apart.
AxisCylinder_stretch_axis_nozero(s, axis, a, b) ==
    IF s.cartesian_axis # axis THEN Result(s, "none")
    ELSE IF a # b THEN Result(s, "iserror")
    ELSE AxisCylinder_radius_set(s, s.radius * a)

\* One of the three per-axis blocks of AxisCylinder.stretch: a and b are the
\* components perpendicular to the axis the block is about.  The block's
\* outcome "iserror" stands for the flag the source raises on at the end.
AxisCylinder_stretch_axis(s, axis, a, b) ==
    IF s.cartesian_axis # axis THEN Result(s, "none")
    ELSE IF a # b THEN Result(s, "iserror")
    ELSE IF a # 0 THEN AxisCylinder_radius_set(s, s.radius * a)
    ELSE Result(s, "none")

\* Variant: the x block compares the components the z block compares.
AxisCylinder_stretch_xasz(s, vector) ==
    LET rx == AxisCylinder_stretch_axis(s, "x", vector[1], vector[2])
        ry == AxisCylinder_stretch_axis(rx.s, "y", vector[1], vector[3])
        rz == AxisCylinder_stretch_axis(ry.s, "z", vector[1], vector[2])
    IN  IF rx.err = "ValueError" THEN rx
        ELSE IF ry.err = "ValueError" THEN ry
        ELSE IF rz.err = "ValueError" THEN rz
        ELSE IF "iserror" \in {rx.err, ry.err, rz.err}
             THEN Result(rz.s, "ValueError")
        ELSE Result(rz.s, "none")

AxisCylinder_stretch(s, vector) ==
    LET rx == AxisCylinder_stretch_axis(s, "x", vector[2], vector[3])
        ry == AxisCylinder_stretch_axis(rx.s, "y", vector[1], vector[3])
        rz == AxisCylinder_stretch_axis(ry.s, "z", vector[1], vector[2])
    IN  IF rx.err = "ValueError" THEN rx
        ELSE IF ry.err = "ValueError" THEN ry
        ELSE IF rz.err = "ValueError" THEN rz
        ELSE IF "iserror" \in {rx.err, ry.err, rz.err}
             THEN Result(rz.s, "ValueError")
        ELSE Result(rz.s, "none")

-----------------------------------------------------------------------------
(* AxisPlane *)

AxisPlane_init(name, cartesian_axis, position, reflecting, white) ==
    LET r1 == IAxisSurface_init([NoSurface EXCEPT !.kind = "AxisPlane"],
                                name, cartesian_axis, reflecting, white)
    IN  IF r1.err # "none" THEN r1
        ELSE Result([r1.s EXCEPT !.position = position], "none")

\* Variant: the x component is added whatever the plane's axis.
AxisPlane_shift_x(s, vector) ==
    Result([s EXCEPT !.position = @ + vector[1]], "none")

AxisPlane_shift(s, vector) ==
    IF s.cartesian_axis = "x"
    THEN Result([s EXCEPT !.position = @ + vector[1]], "none")
    ELSE IF s.cartesian_axis = "y"
    THEN Result([s EXCEPT !.position = @ + vector[2]], "none")
    ELSE IF s.cartesian_axis = "z"
    THEN Result([s EXCEPT !.position = @ + vector[3]], "none")
    ELSE Result(s, "none")

\* Variant: a zero component multiplies like any other.
AxisPlane_stretch_zero(s, vector) ==
    IF s.cartesian_axis = "x"
    THEN Result([s EXCEPT !.position = @ * vector[1]], "none")
    ELSE IF s.cartesian_axis = "y"
    THEN Result([s EXCEPT !.position = @ * vector[2]], "none")
    ELSE IF s.cartesian_axis = "z"
    THEN Result([s EXCEPT !.position = @ * vector[3]], "none")
    ELSE Result(s, "none")

AxisPlane_stretch(s, vector) ==
    IF s.cartesian_axis = "x" /\ vector[1] # 0
    THEN Result([s EXCEPT !.position = @ * vector[1]], "none")
    ELSE IF s.cartesian_axis = "y" /\ vector[2] # 0
    THEN Result([s EXCEPT !.position = @ * vector[2]], "none")
    ELSE IF s.cartesian_axis = "z" /\ vector[3] # 0
    THEN Result([s EXCEPT !.position = @ * vector[3]], "none")
    ELSE Result(s, "none")

-----------------------------------------------------------------------------
(* Parallelepiped, Cuboid *)

\* The limits of one direction; field is "xlims", "ylims" or "zlims".
Lims(s, field) ==
    CASE field = "xlims" -> s.xlims
      [] field = "ylims" -> s.ylims
      [] field = "zlims" -> s.zlims

WithLims(s, field, value) ==
    CASE field = "xlims" -> [s EXCEPT !.xlims = value]
      [] field = "ylims" -> [s EXCEPT !.ylims = value]
      [] field = "zlims" -> [s EXCEPT !.zlims = value]

\* Variant: the limits are stored without the test.
Parallelepiped_lims_set_unchecked(s, field, value) ==
    Result(WithLims(s, field, value), "none")

\* The xlims / ylims / zlims setters: validate, then assign.
Parallelepiped_lims_set(s, field, value) ==
    IF value[1] > value[2] THEN Result(s, "ValueError")
    ELSE Result(WithLims(s, field, value), "none")

\* self.xlims += c and self.xlims *= c: numpy updates the array in place,
\* then the setter is handed the same array; the update stays whatever the
\* setter says.
\* Variant: only the upper limit moves.
Parallelepiped_lims_iadd_maxonly(s, field, c) ==
    LET value == <<Lims(s, field)[1], Lims(s, field)[2] + c>>
        mutated == WithLims(s, field, value)
    IN  Result(mutated, Parallelepiped_lims_set(mutated, field, value).err)

Parallelepiped_lims_iadd(s, field, c) ==
    LET value == <<Lims(s, field)[1] + c, Lims(s, field)[2] + c>>
        mutated == WithLims(s, field, value)
    IN  Result(mutated, Parallelepiped_lims_set(mutated, field, value).err)

Parallelepiped_lims_imul(s, field, c) ==
    LET value == <<Lims(s, field)[1] * c, Lims(s, field)[2] * c>>
        mutated == WithLims(s, field, value)
    IN  Result(mutated, Parallelepiped_lims_set(mutated, field, value).err)

Parallelepiped_init(name, xmin, xmax, ymin, ymax, zmin, zmax, reflecting, white) ==
    LET r0 == ISurface_init([NoSurface EXCEPT !.kind = "Parallelepiped"],
                            name, reflecting, white)
        r1 == Parallelepiped_lims_set(r0.s, "xlims", <<xmin, xmax>>)
        r2 == Parallelepiped_lims_set(r1.s, "ylims", <<ymin, ymax>>)
        r3 == Parallelepiped_lims_set(r2.s, "zlims", <<zmin, zmax>>)
    IN  IF r0.err # "none" THEN r0
        ELSE IF r1.err # "none" THEN r1
        ELSE IF r2.err # "none" THEN r2
        ELSE r3

Parallelepiped_shift(s, vector) ==
    LET r1 == Parallelepiped_lims_iadd(s, "xlims", vector[1])
        r2 == Parallelepiped_lims_iadd(r1.s, "ylims", vector[2])
        r3 == Parallelepiped_lims_iadd(r2.s, "zlims", vector[3])
    IN  IF r1.err # "none" THEN r1
        ELSE IF r2.err # "none" THEN r2
        ELSE r3

\* Variant: a negative factor multiplies without swapping the limits.
Parallelepiped_stretch_axis_noswap(s, field, c) ==
    IF c # 0
    THEN IF c > 0
         THEN Parallelepiped_lims_imul(s, field, c)
         ELSE Parallelepiped_lims_set(
                  s, field, <<c * Lims(s, field)[1], c * Lims(s, field)[2]>>)
    ELSE Result(s, "none")

\* One of the three per-direction blocks of Parallelepiped.stretch.
Parallelepiped_stretch_axis(s, field, c) ==
    IF c # 0
    THEN IF c > 0
         THEN Parallelepiped_lims_imul(s, field, c)
         ELSE Parallelepiped_lims_set(
                  s, field, <<c * Lims(s, field)[2], c * Lims(s, field)[1]>>)
    ELSE Result(s, "none")

Parallelepiped_stretch(s, vector) ==
    LET r1 == Parallelepiped_stretch_axis(s, "xlims", vector[1])
        r2 == Parallelepiped_stretch_axis(r1.s, "ylims", vector[2])
        r3 == Parallelepiped_stretch_axis(r2.s, "zlims", vector[3])
    IN  IF r1.err # "none" THEN r1
        ELSE IF r2.err # "none" THEN r2
        ELSE r3

-----------------------------------------------------------------------------
(* Dispatch on the surface's class *)

Surface_shift(s, vector) ==
    CASE s.kind = "AxisCylinder" -> AxisCylinder_shift(s, vector)
      [] s.kind = "AxisPlane" -> AxisPlane_shift(s, vector)
      [] s.kind = "Parallelepiped" -> Parallelepiped_shift(s, vector)

Surface_stretch(s, vector) ==
    CASE s.kind = "AxisCylinder" -> AxisCylinder_stretch(s, vector)
      [] s.kind = "AxisPlane" -> AxisPlane_stretch(s, vector)
      [] s.kind = "Parallelepiped" -> Parallelepiped_stretch(s, vector)

-----------------------------------------------------------------------------
(* IRegion, IRegionBool, RegionAnd, RegionOr, RegionLeaf *)

\* Variant: the sense is stored inverted.
RegionLeaf_init_negated(surface, pos_sense) ==
    [kind |-> "RegionLeaf", name |-> "<Empty>", parent |-> 0,
     surface |-> surface, pos_sense |-> ~pos_sense,
     left_child |-> 0, right_child |-> 0]

\* Variant: the leaf gets a surface object of its own, not the one handed in.
RegionLeaf_init_copy(surface, pos_sense) ==
    [kind |-> "RegionLeaf", name |-> "<Empty>", parent |-> 0,
     surface |-> "s3", pos_sense |-> pos_sense,
     left_child |-> 0, right_child |-> 0]

\* A region node.  parent, left_child and right_child are node indices, 0
\* for None; surface is a handle, "" for a node that has none.
RegionLeaf_init(surface, pos_sense) ==
    [kind |-> "RegionLeaf", name |-> "<Empty>", parent |-> 0,
     surface |-> surface, pos_sense |-> pos_sense,
     left_child |-> 0, right_child |-> 0]

\* leaf.surface: the object the leaf references, as it is now.
RegionLeaf_surface(surfs, leaf) == surfs[leaf.surface]

\* Variant: the new node is stored as its own right child.
IRegionBool_init_selfchild(regs, kind, left_child, right_child) ==
    LET self == Len(regs) + 1
        node == [kind |-> kind, name |-> "<Empty>", parent |-> 0,
                 surface |-> "", pos_sense |-> FALSE,
                 left_child |-> left_child, right_child |-> self]
        r1 == Append(regs, node)
        r2 == [r1 EXCEPT ![left_child].parent = self]
    IN  [r2 EXCEPT ![right_child].parent = self]

\* Variant: the right child's parent is left as it was.
IRegionBool_init_leftonly(regs, kind, left_child, right_child) ==
    LET self == Len(regs) + 1
        node == [kind |-> kind, name |-> "<Empty>", parent |-> 0,
                 surface |-> "", pos_sense |-> FALSE,
                 left_child |-> left_child, right_child |-> right_child]
        r1 == Append(regs, node)
    IN  [r1 EXCEPT ![left_child].parent = self]

\* RegionAnd(left_child, right_child) / RegionOr(left_child, right_child):
\* the new node is appended, then both children's parent is set to it.
IRegionBool_init(regs, kind, left_child, right_child) ==
    LET self == Len(regs) + 1
        node == [kind |-> kind, name |-> "<Empty>", parent |-> 0,
                 surface |-> "", pos_sense |-> FALSE,
                 left_child |-> left_child, right_child |-> right_child]
        r1 == Append(regs, node)
        r2 == [r1 EXCEPT ![left_child].parent = self]
    IN  [r2 EXCEPT ![right_child].parent = self]

IRegion_intersect(regs, self, arg) == IRegionBool_init(regs, "RegionAnd", self, arg)

IRegion_union(regs, self, arg) == IRegionBool_init(regs, "RegionOr", self, arg)

\* IRegion.shift and IRegion.stretch have no statements: the surfaces are
\* left as they are and the call returns normally.
IRegion_shift(surfs, regs, self, vector) == Result(surfs, "none")

IRegion_stretch(surfs, regs, self, vector) == Result(surfs, "none")

\* The leaves below a node, left to right.
\* Variant: the right subtree is walked before the left one.
RECURSIVE IRegion_walk_rightfirst(_, _, _, _)
IRegion_walk_rightfirst(regs, self, and_func, or_func) ==
    IF regs[self].kind = "RegionLeaf"
    THEN [out |-> << <<"leaf_func", self>> >>, err |-> "none", regs |-> regs]
    ELSE LET right == IRegion_walk_rightfirst(regs, regs[self].right_child,
                                              FALSE, FALSE)
         IN  IF and_func \/ or_func
             THEN [out |-> right.out, err |-> "TypeError",
                   regs |-> right.regs]
             ELSE LET left == IRegion_walk_rightfirst(
                                  right.regs, regs[self].left_child,
                                  FALSE, FALSE)
                  IN  [out |-> right.out \o left.out, err |-> left.err,
                       regs |-> left.regs]

\* Variant: visiting a leaf clears the leaf's parent.
RECURSIVE IRegion_walk_detach(_, _, _, _)
IRegion_walk_detach(regs, self, and_func, or_func) ==
    IF regs[self].kind = "RegionLeaf"
    THEN [out |-> << <<"leaf_func", self>> >>, err |-> "none",
          regs |-> [regs EXCEPT ![self].parent = 0]]
    ELSE LET left == IRegion_walk_detach(regs, regs[self].left_child,
                                         FALSE, FALSE)
         IN  IF and_func \/ or_func
             THEN [out |-> left.out, err |-> "TypeError", regs |-> left.regs]
             ELSE LET right == IRegion_walk_detach(
                                   left.regs, regs[self].right_child,
                                   FALSE, FALSE)
                  IN  [out |-> left.out \o right.out, err |-> right.err,
                       regs |-> right.regs]

\* region.walk(leaf_func, and_func, or_func).  leaf_func is a bound method;
\* and_func / or_func are TRUE for a bound method, FALSE for None.  out is
\* the sequence of visitor calls made, each <<visitor, node>>; regs is the
\* nodes afterwards (walk assigns to none of them).  The recursive calls
\* pass leaf_func alone.  With and_func (or or_func) given, an inner node
\* evaluates isinstance(self, and_func) after its left subtree: the second
\* argument is a bound method, not a class, and isinstance raises TypeError.
RECURSIVE IRegion_walk(_, _, _, _)
IRegion_walk(regs, self, and_func, or_func) ==
    IF regs[self].kind = "RegionLeaf"
    THEN [out |-> << <<"leaf_func", self>> >>, err |-> "none", regs |-> regs]
    ELSE LET left == IRegion_walk(regs, regs[self].left_child, FALSE, FALSE)
         IN  IF left.err # "none"
             THEN left
             ELSE IF and_func \/ or_func
             THEN [out |-> left.out, err |-> "TypeError", regs |-> left.regs]
             ELSE LET right == IRegion_walk(left.regs, regs[self].right_child,
                                            FALSE, FALSE)
                  IN  [out |-> left.out \o right.out, err |-> right.err,
                       regs |-> right.regs]

\* leaf.comment(): the sense as a sign, then the surface's name.
RegionLeaf_comment(surfs, leaf) ==
    (IF leaf.pos_sense THEN "+" ELSE "-") \o surfs[leaf.surface].name

\* Variant: no parentheses around the pair.
IRegionBool_comment_flat(left, midchar, right) ==
    left \o " " \o midchar \o " " \o right

\* IRegionBool.comment(midchar), given the children's comments.
IRegionBool_comment(left, midchar, right) ==
    "(" \o left \o " " \o midchar \o " " \o right \o ")"

\* region.comment(): RegionAnd passes '&', RegionOr passes '|'.
RECURSIVE IRegion_comment(_, _, _)
IRegion_comment(surfs, regs, self) ==
    IF regs[self].kind = "RegionLeaf"
    THEN RegionLeaf_comment(surfs, regs[self])
    ELSE IRegionBool_comment(
             IRegion_comment(surfs, regs, regs[self].left_child),
             IF regs[self].kind = "RegionAnd" THEN "&" ELSE "|",
             IRegion_comment(surfs, regs, regs[self].right_child))

RECURSIVE Leaves(_, _)
Leaves(regs, n) ==
    IF regs[n].kind = "RegionLeaf" THEN <<n>>
    ELSE Leaves(regs, regs[n].left_child) \o Leaves(regs, regs[n].right_child)

-----------------------------------------------------------------------------
(* Inputs *)

NameInputs == {"", "s1"}
AxisInputs == {"x", "y", "Z", "w"}
RadiusInputs == {-1, 0, 1, 2}
PositionInputs == {-1, 0, 2}
LimInputs == {<<0, 0>>, <<-1, 2>>, <<2, 1>>}
FlagInputs == {<<"None", "None">>, <<"True", "False">>, <<"True", "True">>}
ShiftComponents == {0, 1}
ShiftVectors == ShiftComponents \X ShiftComponents \X ShiftComponents
StretchComponents == {-1, 0, 2}
StretchVectors ==
    StretchComponents \X StretchComponents \X StretchComponents

\* The constructor arguments of the last call, in the shape of a surface.
Args(kind, name, cartesian_axis, radius, position, xl, yl, zl, flags) ==
    [kind |-> kind, name |-> name, reflecting |-> flags[1], white |-> flags[2],
     cartesian_axis |-> cartesian_axis, radius |-> radius,
     position |-> position, xlims |-> xl, ylims |-> yl, zlims |-> zl]

\* The record of a call: op is the operation, h the surface handle it was
\* made on (or "" for a call on a region), r the region node it was made on
\* or created (0 for a call on a surface), pre the surfaces before the call.
\* The vectors of the calls made while regions exist.
RegionVectors == {<<2, 2, 0>>, <<1, 0, 0>>}

\* operands are the two regions of an intersect / union, visitors the
\* visitors handed to a walk, out what the call returned or handed to its
\* visitors; a call that has none of these leaves them empty.
Call(op, h, r, vector, pre, arg, err) ==
    [op |-> op, h |-> h, r |-> r, vector |-> vector, pre |-> pre,
     arg |-> arg, err |-> err, operands |-> <<>>, visitors |-> <<>>,
     out |-> <<>>, again |-> FALSE, cpre |-> <<>>]

-----------------------------------------------------------------------------
(* Actions *)

\* h = Class(...): on an exception no object comes to exist.
Construct(h, r, arg) ==
    /\ surfaces[h] = NoSurface
    /\ surfaces' = IF r.err = "none" THEN [surfaces EXCEPT ![h] = r.s]
                   ELSE surfaces
    /\ last' = Call("new", h, 0, ZeroVector, surfaces, arg, r.err)
    /\ UNCHANGED <<regions, nops, cards>>

NewAxisCylinder(h) ==
    \E name \in NameInputs, axis \in AxisInputs, radius \in RadiusInputs,
       flags \in FlagInputs :
        Construct(h,
            AxisCylinder_init(name, axis, radius, flags[1], flags[2]),
            Args("AxisCylinder", name, axis, radius, 0,
                 <<0, 0>>, <<0, 0>>, <<0, 0>>, flags))

NewAxisPlane(h) ==
    \E name \in NameInputs, axis \in AxisInputs, position \in PositionInputs,
       flags \in FlagInputs :
        Construct(h,
            AxisPlane_init(name, axis, position, flags[1], flags[2]),
            Args("AxisPlane", name, axis, 0, position,
                 <<0, 0>>, <<0, 0>>, <<0, 0>>, flags))

NewParallelepiped(h) ==
    \E name \in NameInputs, xl \in LimInputs, yl \in LimInputs,
       zl \in LimInputs, flags \in FlagInputs :
        Construct(h,
            Parallelepiped_init(name, xl[1], xl[2], yl[1], yl[2],
                                zl[1], zl[2], flags[1], flags[2]),
            Args("Parallelepiped", name, "", 0, 0, xl, yl, zl, flags))

\* surface.shift(vector) / surface.stretch(vector)
Transform(op, h, vector, r) ==
    /\ surfaces[h] # NoSurface
    /\ nops < MaxOps
    /\ surfaces' = [surfaces EXCEPT ![h] = r.s]
    /\ last' = Call(op, h, 0, vector, surfaces, NoSurface, r.err)
    /\ nops' = nops + 1
    /\ UNCHANGED <<regions, cards>>

Shift(h) ==
    \E vector \in ShiftVectors :
        /\ surfaces[h] # NoSurface
        /\ Transform("shift", h, vector, Surface_shift(surfaces[h], vector))

Stretch(h) ==
    \E vector \in StretchVectors :
        /\ surfaces[h] # NoSurface
        /\ Transform("stretch", h, vector,
                     Surface_stretch(surfaces[h], vector))

\* surface.pos / surface.neg
NewLeaf(op, h, pos_sense) ==
    /\ surfaces[h] # NoSurface
    /\ Len(regions) < MaxRegions
    /\ regions' = Append(regions, RegionLeaf_init(h, pos_sense))
    /\ last' = Call(op, h, Len(regions) + 1, ZeroVector, surfaces,
                    NoSurface, "none")
    /\ UNCHANGED <<surfaces, nops, cards>>

Pos(h) == NewLeaf("pos", h, TRUE)

Neg(h) == NewLeaf("neg", h, FALSE)

\* region.intersect(arg) (region & arg) / region.union(arg) (region | arg)
Intersect ==
    \E self \in 1..Len(regions), arg \in 1..Len(regions) :
        /\ Len(regions) < MaxRegions
        /\ regions' = IRegion_intersect(regions, self, arg)
        /\ last' = [Call("intersect", "", Len(regions) + 1, ZeroVector,
                         surfaces, NoSurface, "none")
                        EXCEPT !.operands = <<self, arg>>]
        /\ UNCHANGED <<surfaces, nops, cards>>

Union ==
    \E self \in 1..Len(regions), arg \in 1..Len(regions) :
        /\ Len(regions) < MaxRegions
        /\ regions' = IRegion_union(regions, self, arg)
        /\ last' = [Call("union", "", Len(regions) + 1, ZeroVector,
                         surfaces, NoSurface, "none")
                        EXCEPT !.operands = <<self, arg>>]
        /\ UNCHANGED <<surfaces, nops, cards>>

\* region.shift(vector) / region.stretch(vector)
RegionTransform(op, self, vector, r) ==
    /\ nops < MaxOps
    /\ surfaces' = r.s
    /\ last' = Call(op, "", self, vector, surfaces, NoSurface, r.err)
    /\ nops' = nops + 1
    /\ UNCHANGED <<regions, cards>>

RegionShift ==
    \E self \in 1..Len(regions), vector \in RegionVectors :
        RegionTransform("region_shift", self, vector,
                        IRegion_shift(surfaces, regions, self, vector))

RegionStretch ==
    \E self \in 1..Len(regions), vector \in RegionVectors :
        RegionTransform("region_stretch", self, vector,
                        IRegion_stretch(surfaces, regions, self, vector))

-----------------------------------------------------------------------------
(* Specification of one surface: construction, then shifts and stretches *)

Init ==
    /\ surfaces = [h \in Handles |-> NoSurface]
    /\ regions = <<>>
    /\ last = Call("init", "", 0, ZeroVector, surfaces, NoSurface, "none")
    /\ nops = 0
    /\ cards = [c \in CardHandles |-> NoCard]

Next ==
    \/ NewAxisCylinder("s1")
    \/ NewAxisPlane("s1")
    \/ NewParallelepiped("s1")
    \/ Shift("s1")
    \/ Stretch("s1")

Spec == Init /\ [][Next]_vars

-----------------------------------------------------------------------------
(* Specification of regions over two surfaces that exist from the start:   *)
(* a cylinder on the z axis with radius 1 and a plane x = 1.               *)

InitRegion ==
    /\ surfaces =
           [h \in Handles |->
               CASE h = "s1" ->
                        AxisCylinder_init("c", "z", 1, "None", "None").s
                 [] h = "s2" ->
                        AxisPlane_init("p", "x", 1, "None", "None").s
                 [] OTHER -> NoSurface]
    /\ regions = <<>>
    /\ last = Call("init", "", 0, ZeroVector, surfaces, NoSurface, "none")
    /\ nops = 0
    /\ cards = [c \in CardHandles |-> NoCard]

NextRegion ==
    \/ \E h \in Handles : Pos(h)
    \/ \E h \in Handles : Neg(h)
    \/ Intersect
    \/ Union
    \/ RegionShift
    \/ RegionStretch

SpecRegion == InitRegion /\ [][NextRegion]_vars

-----------------------------------------------------------------------------
(* Specification of surfaces that change while leaves reference them: the  *)
(* two surfaces of InitRegion, leaves and regions made from them, and      *)
(* shifts and stretches made on the surfaces themselves.                   *)

ShiftShared(h) ==
    \E vector \in RegionVectors :
        /\ surfaces[h] # NoSurface
        /\ Transform("shift", h, vector, Surface_shift(surfaces[h], vector))

StretchShared(h) ==
    \E vector \in RegionVectors :
        /\ surfaces[h] # NoSurface
        /\ Transform("stretch", h, vector,
                     Surface_stretch(surfaces[h], vector))

NextRef ==
    \/ \E h \in Handles : Pos(h)
    \/ \E h \in Handles : Neg(h)
    \/ Intersect
    \/ \E h \in Handles : ShiftShared(h)
    \/ \E h \in Handles : StretchShared(h)

SpecRef == InitRegion /\ [][NextRef]_vars

-----------------------------------------------------------------------------
(* Specification of walks and comments over the regions built from three   *)
(* leaves: a = c.neg, b = p.pos, c = c.pos on the surfaces of InitRegion.  *)
(* Regions that have no parent yet are combined, two distinct ones at a    *)
(* time, so the trees are the binary trees over the three leaves.          *)

Roots == {n \in 1..Len(regions) : regions[n].parent = 0}

IntersectRoots ==
    \E self \in Roots : \E arg \in Roots \ {self} :
        /\ regions' = IRegion_intersect(regions, self, arg)
        /\ last' = [Call("intersect", "", Len(regions) + 1, ZeroVector,
                         surfaces, NoSurface, "none")
                        EXCEPT !.operands = <<self, arg>>]
        /\ UNCHANGED <<surfaces, nops, cards>>

UnionRoots ==
    \E self \in Roots : \E arg \in Roots \ {self} :
        /\ regions' = IRegion_union(regions, self, arg)
        /\ last' = [Call("union", "", Len(regions) + 1, ZeroVector,
                         surfaces, NoSurface, "none")
                        EXCEPT !.operands = <<self, arg>>]
        /\ UNCHANGED <<surfaces, nops, cards>>

\* region.walk(leaf_func), region.walk(leaf_func, and_func), ...
Walk ==
    \E self \in 1..Len(regions), and_func \in BOOLEAN, or_func \in BOOLEAN :
        LET w == IRegion_walk(regions, self, and_func, or_func)
        IN  /\ regions' = w.regs
            /\ last' = [Call("walk", "", self, ZeroVector, surfaces,
                             NoSurface, w.err)
                            EXCEPT !.visitors = <<and_func, or_func>>,
                                   !.out = w.out,
                                   !.again = /\ last.op = "walk"
                                             /\ last.r = self
                                             /\ last.visitors
                                                    = <<and_func, or_func>>]
            /\ UNCHANGED <<surfaces, nops, cards>>

\* region.comment()
Comment ==
    \E self \in 1..Len(regions) :
        /\ last' = [Call("comment", "", self, ZeroVector, surfaces,
                         NoSurface, "none")
                        EXCEPT !.out = <<IRegion_comment(surfaces, regions,
                                                         self)>>]
        /\ UNCHANGED <<surfaces, regions, nops, cards>>

InitWalk ==
    /\ surfaces =
           [h \in Handles |->
               CASE h = "s1" ->
                        AxisCylinder_init("c", "z", 1, "None", "None").s
                 [] h = "s2" ->
                        AxisPlane_init("p", "x", 1, "None", "None").s
                 [] OTHER -> NoSurface]
    /\ regions = <<RegionLeaf_init("s1", FALSE), RegionLeaf_init("s2", TRUE),
                   RegionLeaf_init("s1", TRUE)>>
    /\ last = Call("init", "", 0, ZeroVector, surfaces, NoSurface, "none")
    /\ nops = 0
    /\ cards = [c \in CardHandles |-> NoCard]

NextWalk ==
    \/ IntersectRoots
    \/ UnionRoots
    \/ Walk
    \/ Comment

SpecWalk == InitWalk /\ [][NextWalk]_vars

-----------------------------------------------------------------------------
(* Specification of names: the unique source cards, the cells, and a      *)
(* plane are constructed and every card is renamed, over the surfaces of   *)
(* InitRegion and the leaf c.neg.                                          *)

CardNameInputs == {"", "fuel"}

MaterialInputs == {"", "UO2"}

DensityInputs == {2}

DensityUnitsInputs == {"g/cm^3", "atoms/b/cm", "kg/m^3"}

RenameInputs == {"", "criticality", "rod"}

CardArgs(kind, name, region, material, density, density_units) ==
    [NoCard EXCEPT !.kind = kind, !.name = name, !.region = region,
                   !.material = material, !.density = density,
                   !.density_units = density_units]

ConstructCard(c, r, arg) ==
    /\ cards[c] = NoCard
    /\ cards' = IF r.err = "none" THEN [cards EXCEPT ![c] = r.s] ELSE cards
    /\ last' = [Call("new_card", c, 0, ZeroVector, surfaces, arg, r.err)
                    EXCEPT !.cpre = cards]
    /\ UNCHANGED <<surfaces, regions, nops>>

NewCriticality ==
    ConstructCard("critsrc", Criticality_init,
                  CardArgs("Criticality", "criticality", 0, "", 0, ""))

NewCriticalityPoints ==
    ConstructCard("critpts", CriticalityPoints_init,
                  CardArgs("CriticalityPoints", "criticalitypoints", 0, "",
                           0, ""))

NewCellVoid ==
    \E name \in CardNameInputs, region \in 1..Len(regions) :
        ConstructCard("cell", CellVoid_init("CellVoid", name, region),
                      CardArgs("CellVoid", name, region, "", 0, ""))

NewCell ==
    \E name \in CardNameInputs, region \in 1..Len(regions),
       material \in MaterialInputs, density \in DensityInputs,
       density_units \in DensityUnitsInputs :
        ConstructCard("cell",
                      Cell_init(name, region, material, density,
                                density_units),
                      CardArgs("Cell", name, region, material, density,
                               density_units))

NewCellMCNP ==
    \E name \in CardNameInputs, region \in 1..Len(regions),
       material \in MaterialInputs, density \in DensityInputs,
       density_units \in DensityUnitsInputs :
        ConstructCard("cell",
                      CellMCNP_init(name, region, material, density,
                                    density_units),
                      CardArgs("CellMCNP", name, region, material, density,
                               density_units))

\* AxisPlane(name, 'x', 2)
NewNamedPlane(h) ==
    \E name \in NameInputs :
        Construct(h, AxisPlane_init(name, "x", 2, "None", "None"),
                  Args("AxisPlane", name, "x", 0, 2, <<0, 0>>, <<0, 0>>,
                       <<0, 0>>, <<"None", "None">>))

\* card.name = value
RenameCard(c) ==
    \E value \in RenameInputs :
        LET r == ICard_name_set(cards[c], cards[c].unique, value)
        IN  /\ cards[c] # NoCard
            /\ cards' = [cards EXCEPT ![c] = r.s]
            /\ last' = [Call("rename_card", c, 0, ZeroVector, surfaces,
                             [NoCard EXCEPT !.name = value], r.err)
                            EXCEPT !.cpre = cards]
            /\ UNCHANGED <<surfaces, regions, nops>>

\* surface.name = value
RenameSurface(h) ==
    \E value \in RenameInputs :
        LET r == ICard_name_set(surfaces[h], FALSE, value)
        IN  /\ surfaces[h] # NoSurface
            /\ surfaces' = [surfaces EXCEPT ![h] = r.s]
            /\ last' = Call("rename", h, 0, ZeroVector, surfaces,
                            [NoSurface EXCEPT !.name = value], r.err)
            /\ UNCHANGED <<regions, nops, cards>>

InitCard ==
    /\ surfaces =
           [h \in Handles |->
               CASE h = "s1" ->
                        AxisCylinder_init("c", "z", 1, "None", "None").s
                 [] h = "s2" ->
                        AxisPlane_init("p", "x", 1, "None", "None").s
                 [] OTHER -> NoSurface]
    /\ regions = <<RegionLeaf_init("s1", FALSE)>>
    /\ last = Call("init", "", 0, ZeroVector, surfaces, NoSurface, "none")
    /\ nops = 0
    /\ cards = [c \in CardHandles |-> NoCard]

NextCard ==
    \/ NewCriticality
    \/ NewCriticalityPoints
    \/ NewCellVoid
    \/ NewCell
    \/ NewCellMCNP
    \/ NewNamedPlane("s3")
    \/ \E c \in CardHandles : RenameCard(c)
    \/ \E h \in Handles : RenameSurface(h)

SpecCard == InitCard /\ [][NextCard]_vars

-----------------------------------------------------------------------------
(* Specification of the boundary flags of surfaces that exist: the two     *)
(* surfaces of InitRegion, with reflecting and white assigned in any order. *)

\* None, False, True, and a value that is not a bool.
FlagValueInputs == {"None", "False", "True", "1"}

\* surface.reflecting = value
SetReflecting(h) ==
    \E value \in FlagValueInputs :
        LET r == ISurface_reflecting_set(surfaces[h], value)
        IN  /\ surfaces[h] # NoSurface
            /\ surfaces' = [surfaces EXCEPT ![h] = r.s]
            /\ last' = Call("set_reflecting", h, 0, ZeroVector, surfaces,
                            [NoSurface EXCEPT !.reflecting = value], r.err)
            /\ UNCHANGED <<regions, nops, cards>>

\* surface.white = value
SetWhite(h) ==
    \E value \in FlagValueInputs :
        LET r == ISurface_white_set(surfaces[h], value)
        IN  /\ surfaces[h] # NoSurface
            /\ surfaces' = [surfaces EXCEPT ![h] = r.s]
            /\ last' = Call("set_white", h, 0, ZeroVector, surfaces,
                            [NoSurface EXCEPT !.white = value], r.err)
            /\ UNCHANGED <<regions, nops, cards>>

NextFlags ==
    \/ \E h \in Handles : SetReflecting(h)
    \/ \E h \in Handles : SetWhite(h)

SpecFlags == InitRegion /\ [][NextFlags]_vars

-----------------------------------------------------------------------------
(* Properties of the surface transforms, checked under Spec *)

\* The last call was op, made on a surface of the given class.
LastSurfaceCall(op, kind) ==
    /\ last.op = op
    /\ last.h \in Handles
    /\ last.pre[last.h].kind = kind

\* The surface the last call was made on, before and after the call.
Pre == last.pre[last.h]
Post == surfaces[last.h]

AxisIndex(axis) ==
    CASE axis = "x" -> 1
      [] axis = "y" -> 2
      [] axis = "z" -> 3

\* The two components of a vector perpendicular to an axis, in order.
Perp(axis, vector) ==
    CASE axis = "x" -> <<vector[2], vector[3]>>
      [] axis = "y" -> <<vector[1], vector[3]>>
      [] axis = "z" -> <<vector[1], vector[2]>>

C3_UnequalPerpFails ==
    LastSurfaceCall("stretch", "AxisCylinder") =>
        LET f == Perp(Pre.cartesian_axis, last.vector)
        IN  f[1] # f[2] => last.err = "ValueError"

C3_Witness ==
    /\ LastSurfaceCall("stretch", "AxisCylinder")
    /\ Pre.cartesian_axis = "x"
    /\ last.vector = <<2, 0, 2>>
    /\ last.err = "ValueError"

\* C4: a stretch of an AxisCylinder with both perpendicular components zero
\* succeeds and leaves the cylinder as it was; and the component along the
\* axis has no effect: the call made with any other value in its place has
\* the outcome the call had (same error, same cylinder afterwards).
C4_ZeroPerpNoOpAxialIgnored ==
    LastSurfaceCall("stretch", "AxisCylinder") =>
        LET f == Perp(Pre.cartesian_axis, last.vector)
            i == AxisIndex(Pre.cartesian_axis)
        IN  /\ (f[1] = 0 /\ f[2] = 0) => (last.err = "none" /\ Post = Pre)
            /\ \A a \in StretchComponents :
                  AxisCylinder_stretch(Pre, [last.vector EXCEPT ![i] = a])
                      = Result(Post, last.err)

C4_Witness ==
    /\ LastSurfaceCall("stretch", "AxisCylinder")
    /\ Pre.cartesian_axis = "y"
    /\ last.vector = <<0, 2, 0>>
    /\ last.err = "none"
    /\ Post = Pre

\* C5: a shift of an AxisCylinder fails when a component off the cylinder's
\* axis is non-zero; with both off-axis components zero it succeeds whatever
\* the component along the axis is, and radius and cartesian_axis keep their
\* values.
C5_CylinderShift ==
    LastSurfaceCall("shift", "AxisCylinder") =>
        LET f == Perp(Pre.cartesian_axis, last.vector)
        IN  /\ (f[1] # 0 \/ f[2] # 0) => last.err # "none"
            /\ (f[1] = 0 /\ f[2] = 0) =>
                  /\ last.err = "none"
                  /\ Post.radius = Pre.radius
                  /\ Post.cartesian_axis = Pre.cartesian_axis

C5_Witness ==
    /\ LastSurfaceCall("shift", "AxisCylinder")
    /\ Pre.cartesian_axis = "z"
    /\ last.vector = <<0, 1, 1>>
    /\ last.err = "ValueError"

\* The limits the claim C6 gives for one direction stretched by factor f.
StretchedLims(lims, f) ==
    IF f > 0 THEN <<f * lims[1], f * lims[2]>>
    ELSE IF f < 0 THEN <<f * lims[2], f * lims[1]>>
    ELSE lims

\* C6: a stretch of a Parallelepiped succeeds and handles each direction by
\* that direction's factor alone: f > 0 gives (f*min, f*max), f < 0 gives
\* (f*max, f*min), f = 0 leaves the limits; nothing else changes.
C6_ParallelepipedStretch ==
    LastSurfaceCall("stretch", "Parallelepiped") =>
        /\ last.err = "none"
        /\ Post = [Pre EXCEPT
                      !.xlims = StretchedLims(Pre.xlims, last.vector[1]),
                      !.ylims = StretchedLims(Pre.ylims, last.vector[2]),
                      !.zlims = StretchedLims(Pre.zlims, last.vector[3])]

\* Factor -1 on z with zero on x and y: only the z limits are swapped and
\* negated.
C6_Witness ==
    /\ LastSurfaceCall("stretch", "Parallelepiped")
    /\ last.vector = <<0, 0, -1>>
    /\ Pre.xlims = <<-1, 2>>
    /\ Pre.zlims = <<-1, 2>>
    /\ Post.xlims = <<-1, 2>>
    /\ Post.ylims = Pre.ylims
    /\ Post.zlims = <<-2, 1>>

\* C7: every Parallelepiped that exists has min <= max in each direction,
\* after construction and after any shifts and stretches; and a construction
\* with min > max in some direction fails, so no object comes to exist.
C7_LimsOrdered ==
    /\ \A h \in Handles :
          surfaces[h].kind = "Parallelepiped" =>
              /\ surfaces[h].xlims[1] <= surfaces[h].xlims[2]
              /\ surfaces[h].ylims[1] <= surfaces[h].ylims[2]
              /\ surfaces[h].zlims[1] <= surfaces[h].zlims[2]
    /\ (/\ last.op = "new"
        /\ last.arg.kind = "Parallelepiped"
        /\ \/ last.arg.xlims[1] > last.arg.xlims[2]
           \/ last.arg.ylims[1] > last.arg.ylims[2]
           \/ last.arg.zlims[1] > last.arg.zlims[2])
       => (last.err # "none" /\ surfaces[last.h] = NoSurface)

\* A box after a shift and then a stretch by negative factors.
C7_Witness ==
    /\ LastSurfaceCall("stretch", "Parallelepiped")
    /\ nops = 2
    /\ last.vector = <<-1, 2, -1>>
    /\ Pre.xlims = <<0, 3>>
    /\ Post.xlims = <<-3, 0>>

\* C8: every AxisCylinder that exists has radius > 0, after construction and
\* after any shifts and stretches, failed ones included; and a construction
\* with radius <= 0 fails, so no object comes to exist.
C8_RadiusPositive ==
    /\ \A h \in Handles :
          surfaces[h].kind = "AxisCylinder" => surfaces[h].radius > 0
    /\ (last.op = "new" /\ last.arg.kind = "AxisCylinder"
            /\ last.arg.radius <= 0)
       => (last.err # "none" /\ surfaces[last.h] = NoSurface)

\* A cylinder after a successful stretch and then a failed one.
C8_Witness ==
    /\ LastSurfaceCall("stretch", "AxisCylinder")
    /\ nops = 2
    /\ last.err = "ValueError"
    /\ Perp(Pre.cartesian_axis, last.vector) = <<-1, -1>>
    /\ Post.radius = 2

\* C9: when a shift or a stretch of a surface fails, the surface has in every
\* field the value it had before the call.
C9_FailedCallChangesNothing ==
    (last.op \in {"shift", "stretch"} /\ last.h \in Handles
        /\ last.err # "none")
    => surfaces = last.pre

\* A stretch the radius setter turned down.
C9_Witness ==
    /\ LastSurfaceCall("stretch", "AxisCylinder")
    /\ last.err = "ValueError"
    /\ last.vector = <<-1, 2, -1>>
    /\ Pre.cartesian_axis = "y"
    /\ Pre.reflecting = "True"
    /\ Post = Pre

-----------------------------------------------------------------------------
(* Properties of the region-level transforms, checked under SpecRegion *)

\* The last call was region.shift or region.stretch.
LastRegionCall == last.op \in {"region_shift", "region_stretch"}

\* What the surface-level call of the same kind does to one surface.
SurfaceCall(op, s, vector) ==
    IF op = "region_shift" THEN Surface_shift(s, vector)
    ELSE Surface_stretch(s, vector)

\* The surface after k surface-level calls in a row; err is that of the
\* first call that fails.
RECURSIVE Repeated(_, _, _, _)
Repeated(op, s, vector, k) ==
    IF k = 0 THEN Result(s, "none")
    ELSE LET r == SurfaceCall(op, s, vector)
         IN  IF r.err # "none" THEN r ELSE Repeated(op, r.s, vector, k - 1)

\* The leaf nodes below node n that reference the surface h, and the number
\* of ways down from n that end in one of them.
LeafNodes(n, h) ==
    {Leaves(regions, n)[i] : i \in {j \in 1..Len(Leaves(regions, n)) :
                                      regions[Leaves(regions, n)[j]].surface = h}}

LeafPaths(n, h) ==
    Cardinality({i \in 1..Len(Leaves(regions, n)) :
                    regions[Leaves(regions, n)[i]].surface = h})

\* C1: region.shift(v) / region.stretch(v) applies the transform to the
\* surface of every leaf below the region: a surface that one leaf below the
\* region references and that accepts the vector is afterwards what the
\* surface-level call makes of it (for the cylinder c on z with radius 1,
\* c.neg.stretch((2, 2, 0)) leaves c.radius = 2).
C1_RegionTransformReachesLeaves ==
    LastRegionCall =>
        \A h \in Handles :
            (/\ LeafPaths(last.r, h) = 1
             /\ SurfaceCall(last.op, last.pre[h], last.vector).err = "none")
            => surfaces[h] = SurfaceCall(last.op, last.pre[h], last.vector).s

\* C10: a surface that k >= 2 leaves of the region reference is transformed
\* once per referencing leaf, k times in all.
C10_SharedSurfaceTransformedPerLeaf ==
    LastRegionCall =>
        \A h \in Handles :
            LET k == Cardinality(LeafNodes(last.r, h))
            IN  (/\ k >= 2
                 /\ LeafPaths(last.r, h) = k
                 /\ Repeated(last.op, last.pre[h], last.vector, k).err
                        = "none")
                => surfaces[h]
                       = Repeated(last.op, last.pre[h], last.vector, k).s

-----------------------------------------------------------------------------
(* Properties of leaves and the surfaces they reference, checked under     *)
(* SpecRef                                                                 *)

\* C11: a leaf made by surface.pos / surface.neg references that very
\* surface object; after a shift or stretch of a surface every leaf made
\* from it, in whatever tree, shows the geometry the call left, never an
\* older copy.
C11_LeavesSeeTheSurface ==
    /\ last.op \in {"pos", "neg"} =>
          /\ regions[last.r].kind = "RegionLeaf"
          /\ regions[last.r].surface = last.h
    /\ (last.op \in {"shift", "stretch"} /\ last.h \in Handles) =>
          \A n \in 1..Len(regions) :
              (regions[n].kind = "RegionLeaf"
                  /\ regions[n].surface = last.h)
              => RegionLeaf_surface(surfaces, regions[n])
                     = IF last.op = "shift"
                       THEN Surface_shift(last.pre[last.h], last.vector).s
                       ELSE Surface_stretch(last.pre[last.h], last.vector).s

\* Two leaves on the cylinder, one inside a region and one on its own, after
\* the cylinder was stretched to radius 2.
C11_Witness ==
    /\ last.op = "stretch"
    /\ last.h = "s1"
    /\ last.vector = <<2, 2, 0>>
    /\ last.pre["s1"].radius = 1
    /\ Len(regions) = 3
    /\ regions[1].surface = "s1" /\ regions[1].parent = 3
    /\ regions[2].surface = "s1" /\ regions[2].parent = 0
    /\ regions[3].kind = "RegionAnd"
    /\ RegionLeaf_surface(surfaces, regions[1]).radius = 2
    /\ RegionLeaf_surface(surfaces, regions[2]).radius = 2

-----------------------------------------------------------------------------
(* Properties of walk and comment, checked under SpecWalk *)

\* The visitor calls the documented in-order traversal makes from node n:
\* the left subtree, then the visitor of n's own kind when it was supplied,
\* then the right subtree, with the same visitors at every depth.
RECURSIVE InOrder(_, _, _)
InOrder(n, and_func, or_func) ==
    IF regions[n].kind = "RegionLeaf"
    THEN << <<"leaf_func", n>> >>
    ELSE InOrder(regions[n].left_child, and_func, or_func)
         \o (IF regions[n].kind = "RegionAnd" /\ and_func
             THEN << <<"and_func", n>> >>
             ELSE IF regions[n].kind = "RegionOr" /\ or_func
             THEN << <<"or_func", n>> >>
             ELSE <<>>)
         \o InOrder(regions[n].right_child, and_func, or_func)

\* C12: walk visits in order: the whole left subtree, then the node's own
\* combinator visitor (and_func for a RegionAnd, or_func for a RegionOr)
\* when one was supplied, then the whole right subtree, at every depth.
C12_WalkInOrder ==
    last.op = "walk" =>
        /\ last.err = "none"
        /\ last.out = InOrder(last.r, last.visitors[1], last.visitors[2])

IsLeaf(n) == regions[n].kind = "RegionLeaf"

\* n is (a & b) & c
LeftNested(n, a, b, c) ==
    /\ regions[n].kind = "RegionAnd"
    /\ regions[n].right_child = c
    /\ regions[regions[n].left_child].kind = "RegionAnd"
    /\ regions[regions[n].left_child].left_child = a
    /\ regions[regions[n].left_child].right_child = b

\* n is a & (b & c)
RightNested(n, a, b, c) ==
    /\ regions[n].kind = "RegionAnd"
    /\ regions[n].left_child = a
    /\ regions[regions[n].right_child].kind = "RegionAnd"
    /\ regions[regions[n].right_child].left_child = b
    /\ regions[regions[n].right_child].right_child = c

\* C13: (a & b) & c and a & (b & c) are trees of different shapes, and a
\* walk of either with a leaf visitor alone calls it exactly three times,
\* for a, then b, then c.
C13_NestedAndsWalkABC ==
    \A a \in 1..Len(regions), b \in 1..Len(regions), c \in 1..Len(regions) :
        (/\ IsLeaf(a) /\ IsLeaf(b) /\ IsLeaf(c)
         /\ last.op = "walk"
         /\ last.visitors = <<FALSE, FALSE>>
         /\ LeftNested(last.r, a, b, c) \/ RightNested(last.r, a, b, c))
        => /\ ~(LeftNested(last.r, a, b, c) /\ RightNested(last.r, a, b, c))
           /\ last.err = "none"
           /\ last.out = << <<"leaf_func", a>>, <<"leaf_func", b>>,
                            <<"leaf_func", c>> >>

\* a & (b & c) walked with the leaf visitor alone.
C13_Witness ==
    /\ last.op = "walk"
    /\ last.visitors = <<FALSE, FALSE>>
    /\ Len(regions) = 5
    /\ last.r = 5
    /\ RightNested(5, 1, 2, 3)
    /\ Len(last.out) = 3

\* C14: a walk changes neither the nodes nor the surfaces, and the same walk
\* made again makes the same visitor calls in the same order.
C14_WalkChangesNothing ==
    [][last'.op = "walk" =>
          /\ regions' = regions
          /\ surfaces' = surfaces
          /\ last'.again => (last'.out = last.out /\ last'.err = last.err)
      ]_vars

\* The root of a five-node tree walked a second time with the leaf visitor.
C14_Witness ==
    /\ last.op = "walk"
    /\ last.again
    /\ last.visitors = <<FALSE, FALSE>>
    /\ Len(regions) = 5
    /\ last.r = 5
    /\ Len(last.out) = 3

\* The fully parenthesized infix text of node n.
RECURSIVE Infix(_)
Infix(n) ==
    IF regions[n].kind = "RegionLeaf"
    THEN IF regions[n].pos_sense
         THEN "+" \o surfaces[regions[n].surface].name
         ELSE "-" \o surfaces[regions[n].surface].name
    ELSE IF regions[n].kind = "RegionAnd"
    THEN "(" \o Infix(regions[n].left_child) \o " & "
             \o Infix(regions[n].right_child) \o ")"
    ELSE "(" \o Infix(regions[n].left_child) \o " | "
             \o Infix(regions[n].right_child) \o ")"

\* C16: comment() is the fully parenthesized infix text of the region: a
\* leaf is '+name' or '-name' by its sense, a RegionAnd is '(' left ' & '
\* right ')', a RegionOr is '(' left ' | ' right ')'.
C16_CommentIsInfix ==
    last.op = "comment" => last.out = <<Infix(last.r)>>

\* The comment of (a & b) | c.
C16_Witness ==
    /\ last.op = "comment"
    /\ Len(regions) = 5
    /\ last.r = 5
    /\ last.out = <<"((-c & +p) | +c)">>

-----------------------------------------------------------------------------
(* Properties of the combinators, checked under SpecRegion *)

\* A node without its parent link.
Detached(node) == [node EXCEPT !.parent = 0]

\* C15: r.intersect(o) / r.union(o) returns a new RegionAnd / RegionOr that
\* is none of the nodes that existed, with r as left child, o as right
\* child and no parent; the parent of r and of o is the new node; the kind,
\* children, surface and sense of every node that existed are as before, and
\* no surface changes.
C15_CombinatorLinksOperands ==
    [][last'.op \in {"intersect", "union"} =>
          LET new == last'.r
              r == last'.operands[1]
              o == last'.operands[2]
          IN  /\ new \notin 1..Len(regions)
              /\ Len(regions') = Len(regions) + 1
              /\ regions'[new].kind = IF last'.op = "intersect"
                                      THEN "RegionAnd" ELSE "RegionOr"
              /\ regions'[new].left_child = r
              /\ regions'[new].right_child = o
              /\ regions'[new].parent = 0
              /\ regions'[r].parent = new
              /\ regions'[o].parent = new
              /\ \A m \in 1..Len(regions) :
                     /\ Detached(regions'[m]) = Detached(regions[m])
                     /\ m \notin {r, o} => regions'[m] = regions[m]
              /\ surfaces' = surfaces
      ]_vars

\* c.neg & p.pos, just made.
C15_Witness ==
    /\ last.op = "intersect"
    /\ last.operands = <<1, 2>>
    /\ last.r = 3
    /\ regions[1].surface = "s1" /\ ~regions[1].pos_sense
    /\ regions[2].surface = "s2" /\ regions[2].pos_sense
    /\ regions[3].kind = "RegionAnd"
    /\ regions[3].left_child = 1 /\ regions[3].right_child = 2
    /\ regions[1].parent = 3 /\ regions[2].parent = 3
    /\ regions[3].parent = 0

-----------------------------------------------------------------------------
(* Properties of names and cells, checked under SpecCard *)

UniqueKinds == {"Criticality", "CriticalityPoints"}

\* The card or surface the latest rename was made on, before and after it.
Renamed == last.op \in {"rename", "rename_card"}

RenamedBefore ==
    IF last.op = "rename_card" THEN last.cpre[last.h] ELSE last.pre[last.h]

RenamedAfter ==
    IF last.op = "rename_card" THEN cards[last.h] ELSE surfaces[last.h]

\* C17: renaming a unique card (Criticality, CriticalityPoints) fails with
\* StandardError whatever the new value, its current name included, and the
\* name stays; renaming any other card to a non-empty value succeeds and the
\* name read back is the new value.
C17_UniqueNamesFixedOthersRenamed ==
    Renamed =>
        /\ RenamedBefore.kind \in UniqueKinds =>
              /\ last.err = "StandardError"
              /\ RenamedAfter.name = RenamedBefore.name
        /\ (RenamedBefore.kind \notin UniqueKinds /\ last.arg.name # "") =>
              /\ last.err = "none"
              /\ RenamedAfter.name = last.arg.name

\* The criticality source renamed to the name it has.
C17_Witness ==
    /\ last.op = "rename_card"
    /\ last.h = "critsrc"
    /\ last.cpre["critsrc"].kind = "Criticality"
    /\ last.arg.name = "criticality"
    /\ last.err = "StandardError"
    /\ cards["critsrc"].name = "criticality"
    /\ cards["cell"].name = "rod"

\* C18: every surface, region, cell and source card that exists has a
\* non-empty name; constructing a card that is not unique with the empty
\* name fails and makes nothing; renaming to the empty string fails (with
\* ValueError on a card that is not unique) and the previous name stays.
C18_NamesNeverEmpty ==
    /\ \A h \in Handles : surfaces[h] # NoSurface => surfaces[h].name # ""
    /\ \A n \in 1..Len(regions) : regions[n].name # ""
    /\ \A c \in CardHandles : cards[c] # NoCard => cards[c].name # ""
    /\ (last.op = "new_card" /\ last.arg.kind \notin UniqueKinds
            /\ last.arg.name = "") =>
          /\ last.err = "ValueError"
          /\ cards = last.cpre
    /\ (last.op = "new" /\ last.arg.name = "") =>
          /\ last.err = "ValueError"
          /\ surfaces = last.pre
    /\ (Renamed /\ last.arg.name = "") =>
          /\ last.err # "none"
          /\ RenamedBefore.kind \notin UniqueKinds => last.err = "ValueError"
          /\ RenamedAfter.name = RenamedBefore.name
          /\ RenamedAfter.name # ""

\* A void cell that was renamed to rod and then refused the empty name.
C18_Witness ==
    /\ last.op = "rename_card"
    /\ last.h = "cell"
    /\ last.arg.name = ""
    /\ last.err = "ValueError"
    /\ cards["cell"].kind = "CellVoid"
    /\ cards["cell"].name = "rod"
    /\ surfaces["s3"].name = "s1"

GoodUnits == {"g/cm^3", "atoms/b/cm"}

\* C19: constructing a Cell or CellMCNP with a non-empty material name and
\* density_units 'g/cm^3' or 'atoms/b/cm' succeeds, and region, material,
\* density and density_units read back as given; with an empty material
\* name or any other density_units it fails.
C19_CellConstruction ==
    (last.op = "new_card" /\ last.arg.kind \in {"Cell", "CellMCNP"}
        /\ last.arg.name # "") =>
        IF last.arg.material # "" /\ last.arg.density_units \in GoodUnits
        THEN /\ last.err = "none"
             /\ cards[last.h] = [last.arg EXCEPT !.unique = FALSE]
        ELSE /\ last.err # "none"
             /\ cards[last.h] = NoCard

-----------------------------------------------------------------------------
(* Properties of the boundary flags at construction, checked under Spec *)

\* The name and the geometric arguments of a constructor call are ones the
\* constructor accepts.
ValidGeometry(arg) ==
    /\ arg.name # ""
    /\ arg.kind \in {"AxisCylinder", "AxisPlane"} =>
          Lower(arg.cartesian_axis) \in {"x", "y", "z"}
    /\ arg.kind = "AxisCylinder" => arg.radius > 0
    /\ arg.kind = "Parallelepiped" =>
          /\ arg.xlims[1] <= arg.xlims[2]
          /\ arg.ylims[1] <= arg.ylims[2]
          /\ arg.zlims[1] <= arg.zlims[2]

\* C20: constructing a surface with reflecting and white both true fails
\* with ValueError and makes no surface; with at most one of them true and
\* a valid name and geometry it succeeds and the surface has the flags given.
C20_ReflectingAndWhiteExclude ==
    last.op = "new" =>
        /\ (Truthy(last.arg.reflecting) /\ Truthy(last.arg.white)) =>
              /\ last.err = "ValueError"
              /\ surfaces[last.h] = NoSurface
        /\ (~(Truthy(last.arg.reflecting) /\ Truthy(last.arg.white))
                /\ ValidGeometry(last.arg)) =>
              /\ last.err = "none"
              /\ surfaces[last.h].kind = last.arg.kind
              /\ surfaces[last.h].reflecting = last.arg.reflecting
              /\ surfaces[last.h].white = last.arg.white

\* A box with valid limits refused for having both flags.
C20_Witness ==
    /\ last.op = "new"
    /\ last.arg.kind = "Parallelepiped"
    /\ ValidGeometry(last.arg)
    /\ last.arg.reflecting = "True"
    /\ last.arg.white = "True"
    /\ last.err = "ValueError"
    /\ surfaces["s1"] = NoSurface

-----------------------------------------------------------------------------
(* Properties of the plane and box transforms, checked under Spec *)

\* C21: AxisPlane.shift never fails and changes the position alone, to the
\* old position plus the vector's component on the plane's axis; the other
\* two components and the axis play no part.
C21_PlaneShift ==
    LastSurfaceCall("shift", "AxisPlane") =>
        /\ last.err = "none"
        /\ Post = [Pre EXCEPT !.position =
                      Pre.position
                          + last.vector[AxisIndex(Pre.cartesian_axis)]]

\* A plane on y shifted by a vector with an x component as well.
C21_Witness ==
    /\ LastSurfaceCall("shift", "AxisPlane")
    /\ Pre.cartesian_axis = "y"
    /\ last.vector = <<1, 1, 0>>
    /\ Pre.position = 2
    /\ Post.position = 3

\* C22: AxisPlane.stretch never fails; a non-zero component on the plane's
\* axis, of either sign, multiplies the position; a zero one leaves the
\* position as it was; the other two components play no part.
C22_PlaneStretch ==
    LastSurfaceCall("stretch", "AxisPlane") =>
        LET f == last.vector[AxisIndex(Pre.cartesian_axis)]
        IN  /\ last.err = "none"
            /\ f # 0 => Post = [Pre EXCEPT !.position = Pre.position * f]
            /\ f = 0 => Post = Pre

\* A plane at x = 2 stretched by 0 on its axis and by other factors off it.
C22_Witness ==
    /\ LastSurfaceCall("stretch", "AxisPlane")
    /\ Pre.cartesian_axis = "x"
    /\ last.vector = <<0, 2, -1>>
    /\ Pre.position = 2
    /\ Post.position = 2

\* C23: Parallelepiped.shift never fails and adds the vector's component of
\* each axis to both limits of that axis, so every extent max - min stays.
C23_BoxShift ==
    LastSurfaceCall("shift", "Parallelepiped") =>
        /\ last.err = "none"
        /\ Post = [Pre EXCEPT
                      !.xlims = <<@[1] + last.vector[1], @[2] + last.vector[1]>>,
                      !.ylims = <<@[1] + last.vector[2], @[2] + last.vector[2]>>,
                      !.zlims = <<@[1] + last.vector[3], @[2] + last.vector[3]>>]
        /\ \A field \in {"xlims", "ylims", "zlims"} :
               Lims(Post, field)[2] - Lims(Post, field)[1]
                   = Lims(Pre, field)[2] - Lims(Pre, field)[1]

\* A box [-1, 2] in x moved by 1 in x and y.
C23_Witness ==
    /\ LastSurfaceCall("shift", "Parallelepiped")
    /\ last.vector = <<1, 1, 0>>
    /\ Pre.xlims = <<-1, 2>>
    /\ Post.xlims = <<0, 3>>
    /\ Post.zlims = Pre.zlims

\* C30: a box direction whose limits are (0, 0), infinite, still has the
\* limits (0, 0) after a shift or a stretch.
C30_InfiniteAxisStays ==
    (LastSurfaceCall("shift", "Parallelepiped")
        \/ LastSurfaceCall("stretch", "Parallelepiped")) =>
        \A field \in {"xlims", "ylims", "zlims"} :
            Lims(Pre, field) = <<0, 0>> => Lims(Post, field) = <<0, 0>>

-----------------------------------------------------------------------------
(* Properties of the region structure, checked under SpecRegion *)

\* C24: each read of surface.pos / surface.neg makes a new RegionLeaf, none
\* of the nodes that existed, with no parent, referencing that surface, with
\* positive sense for pos and negative sense for neg; the nodes that existed
\* and the surfaces are as before.
C24_SenseSelectorsMakeFreshLeaves ==
    [][last'.op \in {"pos", "neg"} =>
          LET new == last'.r
          IN  /\ new \notin 1..Len(regions)
              /\ Len(regions') = Len(regions) + 1
              /\ regions'[new].kind = "RegionLeaf"
              /\ regions'[new].parent = 0
              /\ regions'[new].surface = last'.h
              /\ regions'[new].pos_sense = (last'.op = "pos")
              /\ \A m \in 1..Len(regions) : regions'[m] = regions[m]
              /\ surfaces' = surfaces
      ]_vars

\* p.pos read a second time, after the first leaf went into a region.
C24_Witness ==
    /\ last.op = "pos"
    /\ last.h = "s2"
    /\ last.r = 3
    /\ regions[1].kind = "RegionLeaf"
    /\ regions[1].surface = "s2" /\ regions[1].pos_sense
    /\ regions[1].parent = 2
    /\ regions[3].surface = "s2" /\ regions[3].pos_sense
    /\ regions[3].parent = 0

Internal == {n \in 1..Len(regions) : regions[n].kind # "RegionLeaf"}

\* C25: for every internal node n, the parent of n's left child is n and
\* the parent of n's right child is n.
C25_ParentOfChildIsNode ==
    \A n \in Internal :
        /\ regions[regions[n].left_child].parent = n
        /\ regions[regions[n].right_child].parent = n

\* The child slots a node occupies: <<n, "left">> / <<n, "right">>.
Slots(m) ==
    {<<n, "left">> : n \in {k \in Internal : regions[k].left_child = m}}
        \cup
    {<<n, "right">> : n \in {k \in Internal : regions[k].right_child = m}}

\* C26: every node occupies at most one child slot of one internal node.
C26_AtMostOneSlot ==
    \A m \in 1..Len(regions) : Cardinality(Slots(m)) <= 1

ChildrenOf(n) ==
    IF regions[n].kind = "RegionLeaf" THEN {}
    ELSE {regions[n].left_child, regions[n].right_child}

\* The nodes reached from the set S in at most k more child steps.
RECURSIVE Below(_, _)
Below(S, k) ==
    IF k = 0 THEN S
    ELSE Below(S \cup UNION {ChildrenOf(m) : m \in S}, k - 1)

Descendants(n) == Below(ChildrenOf(n), Len(regions))

Acyclic == \A n \in 1..Len(regions) : n \notin Descendants(n)

\* C27: no node is its own descendant; a node references a surface exactly
\* when it is a leaf; and a walk of any node ends, after calls on leaves
\* below it (or on itself) alone.
C27_AcyclicAndWalkEnds ==
    /\ Acyclic
    /\ \A n \in 1..Len(regions) :
           /\ regions[n].kind = "RegionLeaf" =>
                 /\ regions[n].surface \in Handles
                 /\ ChildrenOf(n) = {}
           /\ regions[n].kind # "RegionLeaf" =>
                 /\ regions[n].surface = ""
                 /\ regions[n].left_child \in 1..Len(regions)
                 /\ regions[n].right_child \in 1..Len(regions)
    /\ \A n \in 1..Len(regions) :
           LET w == IRegion_walk(regions, n, FALSE, FALSE)
           IN  /\ w.err = "none"
               /\ Len(w.out) >= 1
               /\ \A i \in 1..Len(w.out) :
                      /\ w.out[i][2] \in Descendants(n) \cup {n}
                      /\ regions[w.out[i][2]].kind = "RegionLeaf"

\* A region over a region over a leaf, (r & r) | (r & r) with r = c.neg:
\* each node is used for both operands of the next.
C27_Witness ==
    /\ Len(regions) = 3
    /\ regions[2].kind = "RegionAnd"
    /\ regions[2].left_child = 1 /\ regions[2].right_child = 1
    /\ regions[3].kind = "RegionOr"
    /\ regions[3].left_child = 2 /\ regions[3].right_child = 2
    /\ Descendants(3) = {1, 2}
    /\ Len(IRegion_walk(regions, 3, FALSE, FALSE).out) = 4

-----------------------------------------------------------------------------
(* Properties of the boundary flags after construction, checked under      *)
(* SpecFlags                                                               *)

\* C29: no surface has reflecting and white both true, also after the two
\* properties were assigned one after the other on a surface that exists.
C29_NeverReflectingAndWhite ==
    \A h \in Handles :
        surfaces[h] # NoSurface =>
            ~(Truthy(surfaces[h].reflecting) /\ Truthy(surfaces[h].white))

====
